---- MODULE Spec2Model ----
(***************************************************************************)
(* Model of scripts/web_scraper.py: the mode dispatcher (scrape_url), the  *)
(* sitemap loop, the recursive breadth-first crawl (crawl_recursive), the  *)
(* single-page crawl step (crawl_single_page) and the JSON event stream    *)
(* written to standard output.                                             *)
(*                                                                         *)
(* A URL is a record [host, path, frag]: path and frag are sequences of    *)
(* tokens, so that the string tests of the code (endswith, substring of    *)
(* the path) and urldefrag are computed on the parts they read.            *)
(***************************************************************************)
EXTENDS Integers, Sequences, FiniteSets, TLC

\* ------------------------------------------------------------------ bounds
MaxDepthBound == 2
MaxPagesBound == 3
MaxLinks == 2
MaxSitemapLen == 3
MaxContentLen == 5
MaxExcerptLen == 3
MaxFragLen == 2

\* ------------------------------------------------------------- URL universe
None == [none |-> TRUE]

Url(h, p, f) == [host |-> h, path |-> p, frag |-> f]

U_A == Url("x.test", <<"a">>, <<>>)
U_Af == Url("x.test", <<"a">>, <<"f">>)
U_B == Url("x.test", <<"b">>, <<>>)
U_C == Url("y.test", <<"c">>, <<>>)
U_S == Url("x.test", <<"sitemap", ".xml">>, <<>>)
U_T == Url("x.test", <<"llms", ".txt">>, <<>>)
U_ST == Url("x.test", <<"sitemap", ".txt">>, <<>>)

\* an href of a page: an absolute URL, or a root-relative reference
RelB == [rel |-> <<"b">>, frag |-> <<>>]

SeedUrls == {U_A, U_Af, U_S, U_T, U_ST}
Hrefs == {U_Af, RelB, U_C}
SitemapEntries == {U_A, U_B}

Modes == {"auto", "single", "sitemap", "recursive"}

SeqsUpTo(S, n) == UNION {[1..k -> S] : k \in 0..n}

\* ------------------------------------------------------------ URL utilities
\* the tokens of the URL as one string: path, then '#' and the fragment
UrlTokens(u) == u.path \o (IF u.frag = <<>> THEN <<>> ELSE <<"#">> \o u.frag)

EndsWith(s, t) ==
    /\ Len(s) >= Len(t)
    /\ SubSeq(s, Len(s) - Len(t) + 1, Len(s)) = t

is_sitemap(u) ==
    \/ EndsWith(UrlTokens(u), <<"sitemap", ".xml">>)
    \/ \E i \in 1..Len(u.path) : u.path[i] = "sitemap"

is_txt(u) ==
    \/ EndsWith(UrlTokens(u), <<".txt">>)
    \/ EndsWith(UrlTokens(u), <<"llms", ".txt">>)

\* url.rsplit('#', 1)[0]: only the last '#' part goes
normalize_url_last_part(u) ==
    [u EXCEPT !.frag = IF u.frag = <<>> THEN <<>> ELSE SubSeq(u.frag, 1, Len(u.frag) - 1)]

normalize_url(u) == [u EXCEPT !.frag = <<>>]

netloc(u) == u.host

\* every link taken for internal
is_internal_link_always(base_url, link_url) == TRUE

is_internal_link(base_url, link_url) == netloc(base_url) = netloc(link_url)

\* urljoin(base, href): an absolute href stands, a root-relative one takes
\* the base's scheme and network location
urljoin(base, href) ==
    IF "host" \in DOMAIN href THEN href
    ELSE Url(base.host, href.rel, href.frag)

\* Python's seq[:n]
SliceTo(s, n) ==
    IF n >= 0 THEN SubSeq(s, 1, IF n < Len(s) THEN n ELSE Len(s))
    ELSE IF Len(s) + n > 0 THEN SubSeq(s, 1, Len(s) + n) ELSE <<>>

\* -------------------------------------------------------- content utilities
\* Text is a sequence of characters; a word that the code never looks into
\* (a host name, "Untitled") stands as one character.
Whitespace == {" ", "\n"}

\* the characters create_excerpt removes; "BACKTICK" stands for the backquote
MarkdownChars == {"#", "*", "_", "BACKTICK", "[", "]", "(", ")", ">", "|"}

Ellipsis == <<".", ".", ".">>

\* str.strip()
RECURSIVE LStrip(_)
LStrip(s) == IF s # <<>> /\ Head(s) \in Whitespace THEN LStrip(Tail(s)) ELSE s

RECURSIVE RStrip(_)
RStrip(s) ==
    IF s # <<>> /\ s[Len(s)] \in Whitespace THEN RStrip(SubSeq(s, 1, Len(s) - 1)) ELSE s

Strip(s) == RStrip(LStrip(s))

StartsWith(s, t) == Len(s) >= Len(t) /\ SubSeq(s, 1, Len(t)) = t

\* content.split('\n'): the lines, empty ones kept
RECURSIVE SplitLinesFrom(_, _, _)
SplitLinesFrom(s, cur, acc) ==
    IF s = <<>> THEN Append(acc, cur)
    ELSE IF Head(s) = "\n" THEN SplitLinesFrom(Tail(s), <<>>, Append(acc, cur))
    ELSE SplitLinesFrom(Tail(s), Append(cur, Head(s)), acc)

SplitLines(s) == SplitLinesFrom(s, <<>>, <<>>)

UntitledDocument == <<"Untitled", " ", "Document">>

extract_title_from_content(content) ==
    LET lines == SplitLines(content)
        hits == {i \in 1..Len(lines) : StartsWith(Strip(lines[i]), <<"#", " ">>)}
    IN IF hits = {} THEN UntitledDocument
       ELSE LET first == CHOOSE i \in hits : \A j \in hits : i <= j
                line == Strip(lines[first])
            IN Strip(SubSeq(line, 3, Len(line)))

\* the replace loop of create_excerpt
RemoveMarkdown(s) ==
    LET keep(c) == c \notin MarkdownChars IN SelectSeq(s, keep)

\* text.split(): the words between runs of whitespace
RECURSIVE SplitWordsFrom(_, _, _)
SplitWordsFrom(s, cur, acc) ==
    IF s = <<>> THEN (IF cur = <<>> THEN acc ELSE Append(acc, cur))
    ELSE IF Head(s) \in Whitespace
    THEN SplitWordsFrom(Tail(s), <<>>, IF cur = <<>> THEN acc ELSE Append(acc, cur))
    ELSE SplitWordsFrom(Tail(s), Append(cur, Head(s)), acc)

SplitWords(s) == SplitWordsFrom(s, <<>>, <<>>)

\* ' '.join(words)
RECURSIVE JoinWords(_)
JoinWords(ws) ==
    IF ws = <<>> THEN <<>>
    ELSE IF Len(ws) = 1 THEN ws[1]
    ELSE ws[1] \o <<" ">> \o JoinWords(Tail(ws))

\* the text create_excerpt truncates
CleanText(content) == JoinWords(SplitWords(RemoveMarkdown(content)))

\* s.rsplit(' ', 1)[0]
RSplitHead(s) ==
    LET sp == {i \in 1..Len(s) : s[i] = " "}
    IN IF sp = {} THEN s
       ELSE SubSeq(s, 1, (CHOOSE i \in sp : \A j \in sp : j <= i) - 1)

create_excerpt(content, max_length) ==
    LET text == CleanText(content)
    IN IF Len(text) <= max_length THEN text
       ELSE RSplitHead(SliceTo(text, max_length)) \o Ellipsis

\* the default of create_excerpt's max_length
DefaultExcerptLength == 300

\* ------------------------------------------------------------------- state
VARIABLES
    pc,                   \* position in main / scrape_url
    url,                  \* sys.argv[1], or None when absent
    main_mode,            \* main: options.pop('mode', 'auto')
    mode,                 \* the mode variable of scrape_url
    max_depth,            \* options['maxDepth']
    max_pages,            \* options['maxPages']
    follow_internal_only, \* options['followInternalOnly']
    visited,              \* crawl_recursive: set of normalized URLs
    to_visit,             \* crawl_recursive: FIFO of [url, depth]
    pages_processed,      \* crawl_recursive: counter
    results,              \* the page records collected so far
    sitemap_urls,         \* scrape_url: what parse_sitemap returned
    idx,                  \* scrape_url: entries of the capped list done
    out,                  \* the JSON objects printed to standard output
    site,                 \* what the page fetcher answers for each page
    call_args,            \* arguments of a utility function called on its own
    call_result           \* what that call returned

vars == <<pc, url, main_mode, mode, max_depth, max_pages, follow_internal_only, visited,
          to_visit, pages_processed, results, sitemap_urls, idx, out, site,
          call_args, call_result>>

options == <<url, main_mode, max_depth, max_pages, follow_internal_only>>
rec_state == <<visited, to_visit, pages_processed>>
sitemap_state == <<sitemap_urls, idx>>
util_call == <<call_args, call_result>>

\* ------------------------------------------------------------------ events
EvStarting ==
    [type |-> "progress", status |-> "starting", message |-> "Initializing crawler..."]

EvFetching(u) ==
    [type |-> "progress", status |-> "crawling", message |-> "Fetching content from",
     currentUrl |-> u]

EvCrawlError(u) == [type |-> "error", error |-> <<"Failed to crawl", u>>]

EvRecProgress(u, n, total, d) ==
    [type |-> "progress", status |-> "crawling", message |-> "Processing page",
     currentUrl |-> u, pagesProcessed |-> n, totalPages |-> total, depth |-> d]

EvParsingSitemap ==
    [type |-> "progress", status |-> "processing", message |-> "Parsing sitemap..."]

EvSitemapError == [type |-> "error", error |-> <<"Failed to parse sitemap">>]

EvSitemapProgress(u, n, total) ==
    [type |-> "progress", status |-> "crawling", message |-> "Processing sitemap URL",
     currentUrl |-> u, pagesProcessed |-> n, totalPages |-> total]

ErrUrlRequired == [type |-> "error", error |-> <<"URL argument required">>]

ErrNoContent ==
    [type |-> "error", error |-> <<"No content could be extracted from the URL">>]

\* ------------------------------------------------- the single-page crawl step
\* what crawler.arun does for one call: it raises, it reports a failure, or
\* it succeeds with the hrefs found on the page
FetchOutcomes ==
    {[kind |-> "throw"], [kind |-> "fail"]}
        \cup {[kind |-> "ok", links |-> l] : l \in SeqsUpTo(Hrefs, MaxLinks)}

\* the pages a crawl from the seeds can reach
SitePages == {U_A, U_B, U_C, Url("y.test", <<"b">>, <<>>)}

\* a page whose answer is not fixed beforehand
AnyAnswer == [kind |-> "any"]

\* a web where no page's answer is fixed
OpenWeb == [p \in SitePages |-> AnyAnswer]

\* what crawler.arun may do when called for u
Responses(u) ==
    IF u \in DOMAIN site /\ site[u] # AnyAnswer THEN {site[u]} ELSE FetchOutcomes

\* the objects crawl_single_page prints
crawl_single_page_out(u, o) ==
    <<EvFetching(u)>> \o (IF o.kind = "throw" THEN <<EvCrawlError(u)>> ELSE <<>>)

\* result.markdown of a successful fetch: the text the page at u has
Markdown(u) ==
    IF u.path = <<"a">> THEN <<"#", " ", "A", "\n", "a", " ", "a">>
    ELSE IF u.path = <<"b">> THEN <<"#", " ", "B", "\n", "b">>
    ELSE IF u.path = <<"c">> THEN <<"c", " ", "c">>
    ELSE <<>>

\* result.metadata['title'] of a successful fetch, None when there is none
MetaTitle(u) ==
    IF u.path = <<"a">> THEN <<"A", " ", "page">>
    ELSE IF u.path \in {<<"b">>, <<"c">>} THEN None
    ELSE <<>>

\* the title crawl_single_page settles on
PageTitle(meta_title, content) ==
    LET title == IF meta_title # None THEN meta_title
                 ELSE IF content # <<>> THEN extract_title_from_content(content)
                 ELSE <<>>
    IN IF title # <<>> THEN title ELSE <<"Untitled">>

\* the dictionary crawl_single_page returns
crawl_single_page(u, o) ==
    IF o.kind = "ok"
    THEN [url |-> u, success |-> TRUE,
          content |-> Markdown(u),
          title |-> PageTitle(MetaTitle(u), Markdown(u)),
          links |-> [i \in 1..Len(o.links) |-> urljoin(u, o.links[i])]]
    ELSE [url |-> u, success |-> FALSE]

\* ------------------------------------------------------------ initial state
Init ==
    /\ pc = "main"
    /\ url \in SeedUrls \cup {None}
    /\ main_mode \in Modes
    /\ mode = main_mode
    /\ max_depth \in (-1)..MaxDepthBound
    /\ max_pages \in (-1)..MaxPagesBound
    /\ follow_internal_only \in BOOLEAN
    /\ visited = {}
    /\ to_visit = <<>>
    /\ pages_processed = 0
    /\ results = <<>>
    /\ sitemap_urls = <<>>
    /\ idx = 0
    /\ out = <<>>
    /\ site = OpenWeb
    /\ call_args = None
    /\ call_result = None

\* ---------------------------------------------------------------- main
\* main without a URL argument: one error object, sys.exit(1)
MainNoUrl ==
    /\ pc = "main"
    /\ url = None
    /\ out' = Append(out, ErrUrlRequired)
    /\ pc' = "exit1"
    /\ UNCHANGED <<options, site, util_call, mode, rec_state, results, sitemap_state>>

\* the sitemap test made before the text test
ResolveModeSitemapFirst(m, u) ==
    IF m # "auto" THEN m
    ELSE IF is_sitemap(u) THEN "sitemap"
    ELSE IF is_txt(u) THEN "single"
    ELSE "recursive"

\* the mode scrape_url settles on
ResolveMode(m, u) ==
    IF m # "auto" THEN m
    ELSE IF is_txt(u) THEN "single"
    ELSE IF is_sitemap(u) THEN "sitemap"
    ELSE "recursive"

\* scrape_url up to the mode dispatch: the starting event, the mode
ScrapeStart ==
    /\ pc = "main"
    /\ url # None
    /\ out' = Append(out, EvStarting)
    /\ mode' = ResolveMode(mode, url)
    /\ pc' = mode'
    /\ UNCHANGED <<options, site, util_call, rec_state, results, sitemap_state>>

\* ---------------------------------------------------------------- single
SingleCrawl ==
    /\ pc = "single"
    /\ \E o \in Responses(url) :
        LET r == crawl_single_page(url, o) IN
        /\ out' = out \o crawl_single_page_out(url, o)
        /\ results' = IF r.success
                      THEN <<[url |-> r.url, title |-> r.title, content |-> r.content]>>
                      ELSE <<>>
    /\ pc' = "aggregate"
    /\ UNCHANGED <<options, site, util_call, mode, rec_state, sitemap_state>>

\* --------------------------------------------------------------- sitemap
\* what parse_sitemap does: the list of a 200 response, nothing for another
\* status, or an exception that it reports and swallows
SitemapOutcomes ==
    {[kind |-> "throw"], [kind |-> "status"]}
        \cup {[kind |-> "ok", urls |-> l] : l \in SeqsUpTo(SitemapEntries, MaxSitemapLen)}

parse_sitemap_out(o) == IF o.kind = "throw" THEN <<EvSitemapError>> ELSE <<>>

parse_sitemap(o) == IF o.kind = "ok" THEN o.urls ELSE <<>>

\* sitemap_urls[:options.get('maxPages', 50)]
CappedSitemap == SliceTo(sitemap_urls, max_pages)

SitemapParse ==
    /\ pc = "sitemap"
    /\ \E o \in SitemapOutcomes :
        /\ out' = Append(out, EvParsingSitemap) \o parse_sitemap_out(o)
        /\ sitemap_urls' = parse_sitemap(o)
        /\ pc' = IF SliceTo(parse_sitemap(o), max_pages) = <<>>
                 THEN "aggregate" ELSE "sitemap_loop"
    /\ idx' = 0
    /\ UNCHANGED <<options, site, util_call, mode, rec_state, results>>

\* a failed fetch ends the loop
SitemapStepAbort ==
    /\ pc = "sitemap_loop"
    /\ idx < Len(CappedSitemap)
    /\ LET sitemap_url == CappedSitemap[idx + 1] IN
       \E o \in Responses(sitemap_url) :
        LET r == crawl_single_page(sitemap_url, o) IN
        /\ out' = Append(out, EvSitemapProgress(sitemap_url, idx + 1, Len(sitemap_urls)))
                    \o crawl_single_page_out(sitemap_url, o)
        /\ results' = IF r.success
                      THEN Append(results, [url |-> r.url, title |-> r.title,
                                            content |-> r.content])
                      ELSE results
        /\ pc' = IF idx + 1 = Len(CappedSitemap) \/ ~r.success
                 THEN "aggregate" ELSE "sitemap_loop"
    /\ idx' = idx + 1
    /\ UNCHANGED <<options, site, util_call, mode, rec_state, sitemap_urls>>

\* one iteration of the for loop over the capped list
SitemapStep ==
    /\ pc = "sitemap_loop"
    /\ idx < Len(CappedSitemap)
    /\ LET sitemap_url == CappedSitemap[idx + 1] IN
       \E o \in Responses(sitemap_url) :
        LET r == crawl_single_page(sitemap_url, o) IN
        /\ out' = Append(out, EvSitemapProgress(sitemap_url, idx + 1, Len(sitemap_urls)))
                    \o crawl_single_page_out(sitemap_url, o)
        /\ results' = IF r.success
                      THEN Append(results, [url |-> r.url, title |-> r.title,
                                            content |-> r.content])
                      ELSE results
    /\ idx' = idx + 1
    /\ pc' = IF idx + 1 = Len(CappedSitemap) THEN "aggregate" ELSE "sitemap_loop"
    /\ UNCHANGED <<options, site, util_call, mode, rec_state, sitemap_urls>>

\* ------------------------------------------------------------- recursive
\* the seed queued as given, fragment and all
CrawlRecursiveInitRaw ==
    /\ pc = "recursive"
    /\ visited' = {}
    /\ to_visit' = <<[url |-> url, depth |-> 0]>>
    /\ results' = <<>>
    /\ pages_processed' = 0
    /\ pc' = "rec_loop"
    /\ UNCHANGED <<options, site, util_call, mode, sitemap_state, out>>

\* crawl_recursive's locals
CrawlRecursiveInit ==
    /\ pc = "recursive"
    /\ visited' = {}
    /\ to_visit' = <<[url |-> normalize_url(url), depth |-> 0]>>
    /\ results' = <<>>
    /\ pages_processed' = 0
    /\ pc' = "rec_loop"
    /\ UNCHANGED <<options, site, util_call, mode, sitemap_state, out>>

\* pages_processed <= max_pages
LoopCondOffByOne == to_visit # <<>> /\ pages_processed <= max_pages

\* while to_visit and pages_processed < max_pages
LoopCond == to_visit # <<>> /\ pages_processed < max_pages

\* to_visit.pop() instead of to_visit.pop(0)
PopLast(q) == [entry |-> q[Len(q)], rest |-> SubSeq(q, 1, Len(q) - 1)]

\* to_visit[0] read without removing it
PopPeek(q) == [entry |-> Head(q), rest |-> q]

\* to_visit.pop(0): the entry taken, and what stays
Pop(q) == [entry |-> Head(q), rest |-> Tail(q)]

\* the visited test left out
ShouldSkipDepthOnly(u, depth) == depth > max_depth

\* the depth test left out
ShouldSkipVisitedOnly(u, depth) == u \in visited

\* if url in visited or depth > max_depth: continue
ShouldSkip(u, depth) == u \in visited \/ depth > max_depth

\* followInternalOnly not consulted
ShouldFollowInternalAlways(link, vis) ==
    /\ link \notin vis
    /\ is_internal_link(url, link)

\* whether a discovered link is queued
ShouldFollow(link, vis) ==
    /\ link \notin vis
    /\ (~follow_internal_only \/ is_internal_link(url, link))

\* the entries the link loop appends, in link order
NewEntries(links, vis, depth) ==
    LET norm == [i \in 1..Len(links) |-> normalize_url(links[i])]
        keep(l) == ShouldFollow(l, vis)
        kept == SelectSeq(norm, keep)
    IN [i \in 1..Len(kept) |-> [url |-> kept[i], depth |-> depth + 1]]

\* a skipped entry counted as a processed page
RecSkipCounts ==
    /\ pc = "rec_loop"
    /\ LoopCond
    /\ ShouldSkip(Pop(to_visit).entry.url, Pop(to_visit).entry.depth)
    /\ to_visit' = Pop(to_visit).rest
    /\ pages_processed' = pages_processed + 1
    /\ UNCHANGED <<pc, options, site, util_call, mode, visited, results,
                   sitemap_state, out>>

\* an iteration that pops an entry and skips it
RecSkip ==
    /\ pc = "rec_loop"
    /\ LoopCond
    /\ ShouldSkip(Pop(to_visit).entry.url, Pop(to_visit).entry.depth)
    /\ to_visit' = Pop(to_visit).rest
    /\ UNCHANGED <<pc, options, site, util_call, mode, visited, pages_processed, results,
                   sitemap_state, out>>

\* the processed iteration with one of three slips: links marked visited when
\* they are queued, a failed page queued again and not marked, links queued
\* from a page at the depth limit
RecProcessSlip(mark_on_push, retry_failed, push_at_limit) ==
    /\ pc = "rec_loop"
    /\ LoopCond
    /\ LET u == Pop(to_visit).entry.url
           depth == Pop(to_visit).entry.depth
           rest == Pop(to_visit).rest
       IN
        /\ ~ShouldSkip(u, depth)
        /\ pages_processed' = pages_processed + 1
        /\ \E o \in Responses(u) :
            LET r == crawl_single_page(u, o)
                push == r.success /\ (depth < max_depth \/ (push_at_limit /\ depth = max_depth))
                new == IF push THEN NewEntries(r.links, visited \cup {u}, depth) ELSE <<>>
            IN
            /\ out' = Append(out, EvRecProgress(u, pages_processed + 1,
                                 Len(rest) + pages_processed + 1, depth))
                        \o crawl_single_page_out(u, o)
            /\ results' = IF r.success
                          THEN Append(results, [url |-> r.url, title |-> r.title,
                                                content |-> r.content, depth |-> depth])
                          ELSE results
            /\ visited' = IF retry_failed /\ ~r.success THEN visited
                          ELSE IF mark_on_push
                          THEN visited \cup {u} \cup {new[i].url : i \in 1..Len(new)}
                          ELSE visited \cup {u}
            /\ to_visit' = IF retry_failed /\ ~r.success
                           THEN Append(rest, [url |-> u, depth |-> depth])
                           ELSE rest \o new
    /\ UNCHANGED <<pc, options, site, util_call, mode, sitemap_state>>

RecProcessMarkOnPush == RecProcessSlip(TRUE, FALSE, FALSE)
RecProcessRetry == RecProcessSlip(FALSE, TRUE, FALSE)
RecProcessPushAtLimit == RecProcessSlip(FALSE, FALSE, TRUE)

\* an iteration that pops an entry and crawls it
RecProcess ==
    /\ pc = "rec_loop"
    /\ LoopCond
    /\ LET u == Pop(to_visit).entry.url
           depth == Pop(to_visit).entry.depth
           rest == Pop(to_visit).rest
       IN
        /\ ~ShouldSkip(u, depth)
        /\ visited' = visited \cup {u}
        /\ pages_processed' = pages_processed + 1
        /\ \E o \in Responses(u) :
            LET r == crawl_single_page(u, o) IN
            /\ out' = Append(out, EvRecProgress(u, pages_processed + 1,
                                 Len(rest) + pages_processed + 1, depth))
                        \o crawl_single_page_out(u, o)
            /\ results' = IF r.success
                          THEN Append(results, [url |-> r.url, title |-> r.title,
                                                content |-> r.content, depth |-> depth])
                          ELSE results
            /\ to_visit' = IF r.success /\ depth < max_depth
                           THEN rest \o NewEntries(r.links, visited', depth)
                           ELSE rest
    /\ UNCHANGED <<pc, options, site, util_call, mode, sitemap_state>>

\* the loop condition fails: return results
RecReturn ==
    /\ pc = "rec_loop"
    /\ ~LoopCond
    /\ pc' = "aggregate"
    /\ UNCHANGED <<options, site, util_call, mode, rec_state, results, sitemap_state, out>>

\* ------------------------------------------------------------ aggregation
\* the empty test left out
TerminalNoEmptyTest(rs) ==
    [type |-> "result", success |-> TRUE, url |-> url,
     metadata |-> [pagesCount |-> Len(rs), mode |-> mode]]

\* the URL as it is written into a text
UrlString(u) == <<u.host, "/">> \o UrlTokens(u)

\* page_header of one page
PageHeader(page) ==
    <<"\n", "\n", "#", "#", " ">> \o page.title
        \o <<"\n", "*", "Source:", " ">> \o UrlString(page.url) \o <<"*", "\n", "\n">>

\* each page put in front of what was combined so far
RECURSIVE CombinedContentPrepend(_)
CombinedContentPrepend(rs) ==
    IF rs = <<>> THEN <<>>
    ELSE PageHeader(rs[Len(rs)]) \o rs[Len(rs)].content
            \o CombinedContentPrepend(SubSeq(rs, 1, Len(rs) - 1))

\* combined_content after the loop over results
RECURSIVE CombinedContent(_)
CombinedContent(rs) ==
    IF rs = <<>> THEN <<>>
    ELSE CombinedContent(SubSeq(rs, 1, Len(rs) - 1))
            \o PageHeader(rs[Len(rs)]) \o rs[Len(rs)].content

\* the object scrape_url returns
Terminal(rs) ==
    IF rs = <<>> THEN ErrNoContent
    ELSE IF Len(rs) = 1
    THEN [type |-> "result", success |-> TRUE,
          title |-> rs[1].title, content |-> rs[1].content,
          excerpt |-> create_excerpt(rs[1].content, DefaultExcerptLength),
          url |-> url,
          metadata |-> [pagesCount |-> 1, mode |-> mode]]
    ELSE [type |-> "result", success |-> TRUE,
          title |-> rs[1].title, content |-> CombinedContent(rs),
          excerpt |-> create_excerpt(CombinedContent(rs), DefaultExcerptLength),
          url |-> url,
          metadata |-> [pagesCount |-> Len(rs), mode |-> mode,
                        pages |-> [i \in 1..Len(rs) |->
                                      [url |-> rs[i].url, title |-> rs[i].title]]]]

\* scrape_url returns and main prints the object
Aggregate ==
    /\ pc = "aggregate"
    /\ out' = Append(out, Terminal(results))
    /\ pc' = "done"
    /\ UNCHANGED <<options, site, util_call, mode, rec_state, results, sitemap_state>>

Next ==
    \/ MainNoUrl
    \/ ScrapeStart
    \/ SingleCrawl
    \/ SitemapParse
    \/ SitemapStep
    \/ CrawlRecursiveInit
    \/ RecSkip
    \/ RecProcess
    \/ RecReturn
    \/ Aggregate

Spec == Init /\ [][Next]_vars

\* an iteration of the loop of crawl_recursive, or its exit
LoopStep == RecSkip \/ RecProcess \/ RecReturn

\* the loop goes on once it can: every await of a fetch returns
FairSpec == Spec /\ WF_vars(LoopStep)

\* ------------------------------------------- a recursive crawl of a fixed site
\* the hrefs of a page that links to the set S, in a fixed order
LinkList(S) ==
    LET in_S(h) == h \in S IN SelectSeq(<<U_Af, RelB, U_C>>, in_S)

\* the answers a page of a fixed site can give: a failure, or its links
SiteAnswers ==
    {[kind |-> "fail"]} \cup {[kind |-> "ok", links |-> LinkList(S)] : S \in SUBSET Hrefs}

\* the fixed sites: the page y.test/b links back to the seed, the others vary
Sites ==
    {[p \in SitePages |->
        IF p = U_A THEN a ELSE IF p = U_B THEN b ELSE IF p = U_C THEN c
        ELSE [kind |-> "ok", links |-> <<U_Af>>]] :
     a \in SiteAnswers, b \in SiteAnswers, c \in SiteAnswers}

\* a recursive crawl from x.test/a#f over a fixed site
SiteInit ==
    /\ pc = "main"
    /\ url = U_Af
    /\ main_mode = "recursive"
    /\ mode = main_mode
    /\ max_depth \in (-1)..MaxDepthBound
    /\ max_pages \in (-1)..MaxPagesBound
    /\ follow_internal_only \in BOOLEAN
    /\ visited = {}
    /\ to_visit = <<>>
    /\ pages_processed = 0
    /\ results = <<>>
    /\ sitemap_urls = <<>>
    /\ idx = 0
    /\ out = <<>>
    /\ site \in Sites
    /\ call_args = None
    /\ call_result = None

SiteNext ==
    \/ ScrapeStart
    \/ CrawlRecursiveInit
    \/ RecSkip
    \/ RecProcess
    \/ RecReturn
    \/ Aggregate

SiteSpec == SiteInit /\ [][SiteNext]_vars

\* ------------------------------------------- utility functions on their own
\* the program's variables while only a utility function is called
NoCrawl ==
    /\ url = None
    /\ main_mode = "auto"
    /\ mode = "auto"
    /\ max_depth = 0
    /\ max_pages = 0
    /\ follow_internal_only = TRUE
    /\ visited = {}
    /\ to_visit = <<>>
    /\ pages_processed = 0
    /\ results = <<>>
    /\ sitemap_urls = <<>>
    /\ idx = 0
    /\ out = <<>>
    /\ site = OpenWeb

crawl_vars == <<url, main_mode, mode, max_depth, max_pages, follow_internal_only,
                visited, to_visit, pages_processed, results, sitemap_urls, idx,
                out, site>>

ExcerptChars == {"a", " ", "\n", "#"}

ExcerptInit ==
    /\ NoCrawl
    /\ pc = "call_excerpt"
    /\ call_args \in [content : SeqsUpTo(ExcerptChars, MaxContentLen),
                      max_length : 0..MaxExcerptLen]
    /\ call_result = None

\* create_excerpt(content, max_length)
ExcerptCall ==
    /\ pc = "call_excerpt"
    /\ call_result' = create_excerpt(call_args.content, call_args.max_length)
    /\ pc' = "returned_excerpt"
    /\ UNCHANGED <<crawl_vars, call_args>>

ExcerptSpec == ExcerptInit /\ [][ExcerptCall]_vars

\* fragments are sequences of parts: f, g, f#g, ...
Fragments == SeqsUpTo({"f", "g"}, MaxFragLen)

LinkTargets == {Url(h, p, f) : h \in {"x.test", "y.test"}, p \in {<<"a">>, <<"b">>},
                                f \in Fragments}

\* a link, and a second fragment for the same page
NormalizeInit ==
    /\ NoCrawl
    /\ pc = "call_normalize"
    /\ call_args \in [link : LinkTargets, other_frag : Fragments]
    /\ call_result = None

\* normalize_url of the link and of the link with the other fragment
NormalizeCall ==
    /\ pc = "call_normalize"
    /\ call_result' = [key |-> normalize_url(call_args.link),
                       other_key |-> normalize_url(
                           [call_args.link EXCEPT !.frag = call_args.other_frag])]
    /\ pc' = "returned_normalize"
    /\ UNCHANGED <<crawl_vars, call_args>>

NormalizeSpec == NormalizeInit /\ [][NormalizeCall]_vars

\* ----------------------------------------------------- reading the stream
IsFetchEvent(e) == e.type = "progress" /\ e.message = "Fetching content from"
IsRecProgress(e) == e.type = "progress" /\ e.message = "Processing page"
IsCrawlError(e) == e.type = "error" /\ e.error[1] = "Failed to crawl"
IsTerminalShape(e) == e.type \in {"result", "error"}

\* the URLs handed to crawl_single_page, in call order
FetchAttempts ==
    LET ev == SelectSeq(out, IsFetchEvent)
    IN [i \in 1..Len(ev) |-> ev[i].currentUrl]

\* the progress events of the recursive loop, in order
RecProgress == SelectSeq(out, IsRecProgress)

InRecursive == mode = "recursive" /\ pc \in {"rec_loop", "aggregate", "done"}
InSitemap == mode = "sitemap" /\ pc \in {"sitemap_loop", "aggregate", "done"}
Ended == pc \in {"aggregate", "done"}

Max(a, b) == IF a >= b THEN a ELSE b
Min(a, b) == IF a <= b THEN a ELSE b

\* ------------------------------------------------------------------ claims

\* C1 (as stated): in a recursive crawl the number of fetch attempts and the
\* number of page records never exceed maxPages.
C1_AsStated ==
    InRecursive => Len(FetchAttempts) <= max_pages /\ Len(results) <= max_pages

\* C1 (amended): in a recursive crawl the number of fetch attempts and the
\* number of page records never exceed maxPages when maxPages >= 0, and are
\* zero when maxPages is negative.
C1_PageBudget ==
    InRecursive =>
        /\ Len(FetchAttempts) <= Max(max_pages, 0)
        /\ Len(results) <= Max(max_pages, 0)
        /\ Len(FetchAttempts) = pages_processed

\* the budget is used up while entries are still pending
C1_Witness ==
    /\ InRecursive
    /\ max_pages >= 2
    /\ Len(FetchAttempts) = max_pages
    /\ to_visit # <<>>
    /\ \E i \in 1..Len(to_visit) : to_visit[i].url \notin visited

\* C2: in a recursive crawl no normalized URL is fetched more than once.
C2_FetchedAtMostOnce ==
    InRecursive =>
        \A i, j \in 1..Len(FetchAttempts) :
            normalize_url(FetchAttempts[i]) = normalize_url(FetchAttempts[j]) => i = j

\* a fetched URL is at the front of the queue again, after two fetches
C2_Witness ==
    /\ pc = "rec_loop"
    /\ LoopCond
    /\ Len(FetchAttempts) >= 2
    /\ Head(to_visit).url \in visited
    /\ Head(to_visit).depth <= max_depth

\* C3: when the invocation has ended, the stream holds exactly one object of
\* type result or error, that object is the last one, and every object before
\* it has type progress.
C3_OneTerminalLast ==
    pc \in {"done", "exit1"} =>
        /\ out # <<>>
        /\ IsTerminalShape(out[Len(out)])
        /\ \A i \in 1..(Len(out) - 1) : out[i].type = "progress"

\* C4: in a recursive crawl every page record has 0 <= depth <= maxDepth and
\* every fetched page was dequeued with depth <= maxDepth.
C4_DepthBounded ==
    InRecursive =>
        /\ \A i \in 1..Len(results) :
              results[i].depth >= 0 /\ results[i].depth <= max_depth
        /\ \A i \in 1..Len(RecProgress) :
              RecProgress[i].depth >= 0 /\ RecProgress[i].depth <= max_depth
        /\ Len(RecProgress) = Len(FetchAttempts)

\* a page at the depth limit is recorded and the crawl has ended
C4_Witness ==
    /\ InRecursive
    /\ pc = "done"
    /\ max_depth >= 1
    /\ \E i \in 1..Len(results) : results[i].depth = max_depth

\* C5: a recursive crawl is breadth-first: pages are processed, and records
\* appended, in non-decreasing depth order, and no pending entry is shallower
\* than the page processed last.
C5_BreadthFirst ==
    InRecursive =>
        /\ \A i, j \in 1..Len(results) :
              i <= j => results[i].depth <= results[j].depth
        /\ \A i, j \in 1..Len(RecProgress) :
              i <= j => RecProgress[i].depth <= RecProgress[j].depth
        /\ \A i \in 1..Len(to_visit) :
              RecProgress # <<>> =>
                  RecProgress[Len(RecProgress)].depth <= to_visit[i].depth

\* the second page of depth 1 was processed while an entry of depth 2, pushed
\* by the first, was pending
C5_Witness ==
    /\ InRecursive
    /\ Len(RecProgress) = 3
    /\ RecProgress[2].depth = 1
    /\ RecProgress[3].depth = 1
    /\ to_visit # <<>>
    /\ Head(to_visit).depth = 2

\* C6: the recursive crawl loop always exits.
C6_LoopTerminates == (pc = "rec_loop") ~> (pc = "aggregate")

\* the loop has exited on the page budget with a visited URL still queued
C6_Witness ==
    /\ pc = "aggregate"
    /\ mode = "recursive"
    /\ Cardinality(visited) >= 2
    /\ \E i \in 1..Len(to_visit) : to_visit[i].url \in visited

\* C7: with followInternalOnly, every queued entry has the network location
\* of the start URL, and so has every page fetched.
C7_InternalOnly ==
    (InRecursive /\ follow_internal_only) =>
        /\ \A i \in 1..Len(to_visit) : to_visit[i].url.host = url.host
        /\ \A i \in 1..Len(FetchAttempts) : FetchAttempts[i].host = url.host

\* links were queued and followed under followInternalOnly
C7_Witness ==
    /\ InRecursive
    /\ follow_internal_only
    /\ Len(FetchAttempts) >= 2
    /\ to_visit # <<>>
    /\ to_visit[Len(to_visit)].depth = 2

\* C8: a failed fetch does not end the crawl: a sitemap crawl ends only when
\* every entry of the capped list was attempted, a recursive crawl only when
\* the queue is empty or the budget used up; a failed URL adds no record.
C8_FailureNotFatal ==
    /\ (InSitemap /\ Ended) => FetchAttempts = CappedSitemap
    /\ (InSitemap /\ pc = "sitemap_loop") =>
            FetchAttempts = SubSeq(CappedSitemap, 1, idx)
    /\ (InRecursive /\ Ended) => (to_visit = <<>> \/ pages_processed >= max_pages)
    /\ (InRecursive \/ InSitemap) =>
            Len(results) + Len(SelectSeq(out, IsCrawlError)) <= Len(FetchAttempts)

\* a sitemap crawl went on after a fetch that raised
C8_Witness ==
    /\ InSitemap
    /\ pc = "done"
    /\ results # <<>>
    /\ \E i, j \in 1..Len(out) :
          i < j /\ IsCrawlError(out[i]) /\ IsFetchEvent(out[j])

\* C9: in sitemap mode the fetch attempts are exactly the first
\* min(|L|, maxPages) entries of the list L the reader returned, in order.
C9_SitemapPrefix ==
    (InSitemap /\ Ended) =>
        FetchAttempts = SubSeq(sitemap_urls, 1, Min(Len(sitemap_urls), max_pages))

\* C10: a run that ends without page records prints the error object "No
\* content could be extracted from the URL"; a result object is printed only
\* when there is at least one record.
C10_EmptyIsError ==
    pc = "done" =>
        /\ results = <<>> => out[Len(out)] = ErrNoContent
        /\ out[Len(out)].type = "result" =>
              (results # <<>> /\ out[Len(out)].metadata.pagesCount = Len(results))

\* a recursive crawl whose only fetch failed has ended
C10_Witness ==
    /\ pc = "done"
    /\ mode = "recursive"
    /\ results = <<>>
    /\ Len(FetchAttempts) = 1

\* C11: mode auto is resolved before any fetch by the priority text URL ->
\* single, else sitemap URL -> sitemap, else recursive; the resolved mode
\* stays the same during the crawl and is the mode reported in the metadata.
C11_AutoPriority ==
    /\ pc = "main" => (mode = main_mode /\ out = <<>>)
    /\ (pc \notin {"main", "exit1"} /\ main_mode = "auto") =>
          /\ is_txt(url) => mode = "single"
          /\ (~is_txt(url) /\ is_sitemap(url)) => mode = "sitemap"
          /\ (~is_txt(url) /\ ~is_sitemap(url)) => mode = "recursive"
    /\ (pc \notin {"main", "exit1"} /\ main_mode # "auto") => mode = main_mode
    /\ pc \in {"single", "sitemap", "recursive"} => mode = pc
    /\ pc = "sitemap_loop" => mode = "sitemap"
    /\ pc = "rec_loop" => mode = "recursive"
    /\ (pc = "done" /\ out[Len(out)].type = "result") =>
          out[Len(out)].metadata.mode = mode

\* a URL that is both a text URL and a sitemap URL was crawled in single
\* mode under auto, and the result reports single
C11_Witness ==
    /\ pc = "done"
    /\ main_mode = "auto"
    /\ is_txt(url) /\ is_sitemap(url)
    /\ out[Len(out)].type = "result"
    /\ out[Len(out)].metadata.mode = "single"

\* where the block of page i starts in the combined content, counted from 0
RECURSIVE BlockStart(_, _)
BlockStart(rs, i) ==
    IF i = 1 THEN 0
    ELSE BlockStart(rs, i - 1) + Len(PageHeader(rs[i - 1])) + Len(rs[i - 1].content)

\* the pages one followed link away from page p of the site
LinkedFrom(p) ==
    IF site[p].kind # "ok" THEN {}
    ELSE {t \in {normalize_url(urljoin(p, site[p].links[i])) : i \in 1..Len(site[p].links)} :
            ~follow_internal_only \/ t.host = url.host}

\* the pages at most k followed links away from the seed
RECURSIVE ReachWithin(_)
ReachWithin(k) ==
    IF k < 0 THEN {}
    ELSE IF k = 0 THEN {normalize_url(url)}
    ELSE ReachWithin(k - 1) \cup UNION {LinkedFrom(p) : p \in ReachWithin(k - 1)}

\* the shortest link distance of a reachable page from the seed
LinkDistance(p) ==
    CHOOSE k \in 0..max_depth : p \in ReachWithin(k) /\ p \notin ReachWithin(k - 1)

\* C12: when every fetch succeeds and the pages reachable within maxDepth
\* followed links are at most maxPages, the crawl ends with exactly one record
\* per reachable page and no other, each at its shortest link distance.
C12_ReachableExactly ==
    (/\ InRecursive /\ Ended
     /\ \A p \in ReachWithin(max_depth) : site[p].kind = "ok"
     /\ Cardinality(ReachWithin(max_depth)) <= max_pages) =>
        /\ Len(results) = Cardinality(ReachWithin(max_depth))
        /\ {results[i].url : i \in 1..Len(results)} = ReachWithin(max_depth)
        /\ \A i \in 1..Len(results) : results[i].depth = LinkDistance(results[i].url)

\* the site A <-> B was crawled with room to spare: A at depth 0, B at depth 1
C12_Witness ==
    /\ InRecursive /\ pc = "done"
    /\ max_depth = 2 /\ max_pages = 3
    /\ site[U_A] = [kind |-> "ok", links |-> <<RelB>>]
    /\ site[U_B] = [kind |-> "ok", links |-> <<U_Af>>]
    /\ Len(results) = 2
    /\ results[1].url = U_A /\ results[1].depth = 0
    /\ results[2].url = U_B /\ results[2].depth = 1

\* C13: when n > 1 page records are aggregated, pagesCount = n, metadata.pages
\* lists url and title of every record in the order of results, the title is
\* the first record's, and the content is exactly n blocks in that order, each
\* a header naming the page's title and URL followed by the page's content.
C13_Aggregation ==
    (pc = "done" /\ Len(results) > 1) =>
        LET t == out[Len(out)]
            n == Len(results)
        IN /\ t.type = "result"
           /\ t.metadata.pagesCount = n
           /\ Len(t.metadata.pages) = n
           /\ \A i \in 1..n :
                 /\ t.metadata.pages[i].url = results[i].url
                 /\ t.metadata.pages[i].title = results[i].title
           /\ t.title = results[1].title
           /\ Len(t.content) = BlockStart(results, n) + Len(PageHeader(results[n]))
                                    + Len(results[n].content)
           /\ \A i \in 1..n :
                 LET b == BlockStart(results, i)
                     h == <<"\n", "\n", "#", "#", " ">> \o results[i].title
                            \o <<"\n", "*", "Source:", " ">> \o UrlString(results[i].url)
                            \o <<"*", "\n", "\n">>
                 IN /\ SubSeq(t.content, b + 1, b + Len(h)) = h
                    /\ SubSeq(t.content, b + Len(h) + 1,
                              b + Len(h) + Len(results[i].content)) = results[i].content

\* three different pages were aggregated
C13_Witness ==
    /\ pc = "done"
    /\ Len(results) = 3
    /\ results[1].url # results[2].url
    /\ results[2].url # results[3].url
    /\ out[Len(out)].type = "result"

\* C14: create_excerpt returns at most maxLength + 3 characters, and when it
\* truncates, the text before the ellipsis ends at a word boundary of the
\* cleaned text, never in the middle of a word.
C14_ExcerptWordBoundary ==
    pc = "returned_excerpt" =>
        LET text == CleanText(call_args.content)
            m == call_args.max_length
            r == call_result
        IN /\ Len(r) <= m + 3
           /\ Len(text) <= m => r = text
           /\ Len(text) > m =>
                 LET k == Len(r) - 3 IN
                 /\ k >= 0
                 /\ SubSeq(r, 1, k) = SubSeq(text, 1, k)
                 /\ SubSeq(r, k + 1, k + 3) = <<".", ".", ".">>
                 /\ (k = 0 \/ k = Len(text) \/ text[k] = " " \/ text[k + 1] = " ")

\* C15: normalize_url is idempotent, and two links that differ only in their
\* fragment have the same key.
C15_NormalizeIdempotent ==
    pc = "returned_normalize" =>
        /\ normalize_url(call_result.key) = call_result.key
        /\ normalize_url(call_result.other_key) = call_result.other_key
        /\ call_result.key = call_result.other_key

\* a link with a two-part fragment and the same link with another fragment
C15_Witness ==
    /\ pc = "returned_normalize"
    /\ Len(call_args.link.frag) = 2
    /\ call_args.other_frag # call_args.link.frag
    /\ call_args.other_frag # <<>>
    /\ call_result.key.frag = <<>>

\* the URLs of the page records
ResultUrls == {results[i].url : i \in 1..Len(results)}

\* the set of URLs a fetch was attempted for
Attempted == {FetchAttempts[i] : i \in 1..Len(FetchAttempts)}

\* C16: in a recursive crawl visited is exactly the set of URLs a fetch was
\* attempted for: a URL enters it when it is dequeued for processing, never
\* when it is only discovered, so pending entries of a URL not yet processed
\* are not in visited.
C16_VisitedIsAttempted ==
    InRecursive =>
        /\ visited = Attempted
        /\ Cardinality(visited) = Len(FetchAttempts)

\* a URL is queued twice and is not in visited
C16_Witness ==
    /\ pc = "rec_loop"
    /\ \E i, j \in 1..Len(to_visit) :
          /\ i < j
          /\ to_visit[i].url = to_visit[j].url
          /\ to_visit[i].url \notin visited
          /\ to_visit[i].depth <= max_depth

\* C17: in a recursive crawl a page whose fetch fails pushes nothing to the
\* queue, is fetched only once, uses one unit of the page budget and stays in
\* visited.
C17_FailedPage ==
    /\ [][(/\ pc = "rec_loop"
            /\ pages_processed' # pages_processed
            /\ results' = results) =>
              (/\ to_visit' = Tail(to_visit)
               /\ pages_processed' = pages_processed + 1
               /\ Head(to_visit).url \in visited')]_vars
    /\ [](InRecursive =>
            /\ pages_processed = Len(FetchAttempts)
            /\ \A i \in 1..Len(FetchAttempts) :
                  FetchAttempts[i] \notin ResultUrls =>
                      /\ FetchAttempts[i] \in visited
                      /\ \A j \in 1..Len(FetchAttempts) :
                            FetchAttempts[j] = FetchAttempts[i] => j = i)

\* the crawl has ended after the fetch of a page other than the seed failed
C17_Witness ==
    /\ InRecursive /\ pc = "done"
    /\ Len(FetchAttempts) = 3
    /\ Len(results) = 2
    /\ FetchAttempts[2] \notin ResultUrls

\* C18: with maxDepth = 0 and maxPages >= 1 a recursive crawl makes exactly
\* one fetch attempt, the start URL at depth 0, pushes no link whatever links
\* the start page has, and yields at most one page record.
C18_DepthZero ==
    (InRecursive /\ max_depth = 0 /\ max_pages >= 1) =>
        /\ Len(FetchAttempts) <= 1
        /\ Len(results) <= 1
        /\ \A i \in 1..Len(to_visit) :
              i = 1 /\ FetchAttempts = <<>> /\ to_visit[i].depth = 0
        /\ Ended =>
              /\ FetchAttempts = <<normalize_url(url)>>
              /\ RecProgress[1].depth = 0

\* the start page has three links and the crawl ended with its record alone
C18_Witness ==
    /\ InRecursive /\ pc = "done"
    /\ max_depth = 0 /\ max_pages >= 1
    /\ site[U_A].kind = "ok"
    /\ Len(site[U_A].links) = 3
    /\ Len(results) = 1

\* C19: in a recursive crawl a skipped pop changes neither pagesProcessed,
\* visited, results nor the events; a processed pop adds exactly 1 to
\* pagesProcessed and emits a progress event with the new counter and with
\* totalPages = queue length after the pop + pagesProcessed. So pagesProcessed
\* is the size of visited and every reported pagesProcessed <= totalPages.
C19_PopEffects ==
    /\ [][(pc = "rec_loop" /\ pc' = "rec_loop") =>
            IF Head(to_visit).url \in visited \/ Head(to_visit).depth > max_depth
            THEN UNCHANGED <<pages_processed, visited, results, out>>
            ELSE /\ pages_processed' = pages_processed + 1
                 /\ Len(out') > Len(out)
                 /\ out'[Len(out) + 1].message = "Processing page"
                 /\ out'[Len(out) + 1].pagesProcessed = pages_processed'
                 /\ out'[Len(out) + 1].totalPages
                        = (Len(to_visit) - 1) + pages_processed']_vars
    /\ [](InRecursive =>
            /\ pages_processed = Cardinality(visited)
            /\ \A i \in 1..Len(RecProgress) :
                  /\ RecProgress[i].pagesProcessed = i
                  /\ RecProgress[i].pagesProcessed <= RecProgress[i].totalPages)

\* two pages were processed, the second reported with one entry pending, and
\* the next entry is one to skip
C19_Witness ==
    /\ pc = "rec_loop"
    /\ Len(RecProgress) = 2
    /\ RecProgress[2].totalPages = 3
    /\ to_visit # <<>>
    /\ Head(to_visit).url \in visited

\* C20: in a recursive crawl the first fetch attempt is the normalized seed at
\* depth 0; if it fails no other URL is fetched and the run ends with the
\* empty-result error; when results is not empty its first record is the seed
\* at depth 0.
C20_SeedFirst ==
    InRecursive =>
        /\ FetchAttempts # <<>> =>
              (FetchAttempts[1] = normalize_url(url) /\ RecProgress[1].depth = 0)
        /\ results # <<>> =>
              (results[1].url = normalize_url(url) /\ results[1].depth = 0)
        /\ (FetchAttempts # <<>> /\ results = <<>>) =>
              (Len(FetchAttempts) = 1 /\ to_visit = <<>>)
        /\ (pc = "done" /\ results = <<>>) => out[Len(out)] = ErrNoContent

\* the fetch of a seed given with a fragment raised, and the run has ended
C20_Witness ==
    /\ InRecursive /\ pc = "done"
    /\ url = U_Af
    /\ max_depth >= 1 /\ max_pages >= 2
    /\ FetchAttempts = <<U_A>>
    /\ \E i \in 1..Len(out) : IsCrawlError(out[i])
    /\ results = <<>>

====
